---- MODULE Spec2Model ----
(***************************************************************************)
(* geosoup.raster.Raster: tile grid, tile reads, the tile generator, the   *)
(* pixel/world coordinate pair and geometry extraction, as a state machine *)
(* over one Raster object and the raster source (GDAL dataset) behind it.  *)
(***************************************************************************)
EXTENDS Integers, Sequences, FiniteSets, TLC

VARIABLES
    src,      \* the raster source behind the Raster (what gdal.Open returns)
    ras,      \* the fields of the Raster object (raster.py 30-45)
    gen,      \* the get_next_tile generator object the client holds, if any
    ret,      \* the last call: its name, arguments and outcome
    cc        \* inputs and results of the get_coords / get_locations pair

vars == <<src, ras, gen, ret, cc>>

(***************************** bounds **************************************)
MaxDim == 5        \* raster columns and rows range over 1..MaxDim
MaxTile == 2       \* tile_xsize and tile_ysize range over 1..MaxTile
MaxBuf == 2        \* edge_buffer ranges over 0..MaxBuf
MaxBands == 2      \* band count ranges over 1..MaxBands
MaxLifeDim == 2    \* columns and rows of the raster in the Raster's life
MaxGridLen == 4    \* a grid is built again while tile_grid stays this short
MaxPix == 3        \* pixel indices 0..MaxPix in the coordinate round trip
MaxPixSize == 2    \* pixel sizes -MaxPixSize..MaxPixSize, zero excluded
MaxGeoms == 2       \* point geometries in one extract_geom call
MaxEarlier == 2    \* tiles held before a make_tile_grid call with bound_coords
MantBits == 6      \* significand bits of the modelled binary float (binary64: 53)
FracBits == 3      \* floats are counted in units of 2^-FracBits

(************************* Python values ***********************************)
\* None and a present value, as sequences of length 0 and 1.
None == <<>>
Some(v) == <<v>>
IsNone(o) == o = <<>>
Val(o) == o[1]

Ok(v) == [kind |-> "ok", val |-> v]
Raise(e) == [kind |-> "raise", exc |-> e]

Min2(a, b) == IF a < b THEN a ELSE b
Max2(a, b) == IF a > b THEN a ELSE b
CeilDiv(a, b) == (a + b - 1) \div b

\* range(a, b, s) for a step s >= 1
PyRange(a, b, s) ==
    IF b <= a THEN <<>>
    ELSE [i \in 1..CeilDiv(b - a, s) |-> a + (i - 1) * s]

(************************* binary floats ***********************************)
\* A float is an integer count of units of 2^-FracBits. Every arithmetic
\* result is rounded to MantBits significant bits, ties to even, as IEEE-754
\* does with 53 bits for the Python float.
Unit == 2 ^ FracBits
Fl(n) == n * Unit
Abs(v) == IF v < 0 THEN -v ELSE v

RECURSIVE BitLen(_)
BitLen(a) == IF a = 0 THEN 0 ELSE 1 + BitLen(a \div 2)

RN(v) ==
    LET a == Abs(v)
        e == BitLen(a)
    IN  IF e <= MantBits THEN v
        ELSE LET q == 2 ^ (e - MantBits)
                 k == a \div q
                 r == a - k * q
                 up == IF 2 * r > q THEN TRUE
                       ELSE IF 2 * r < q THEN FALSE
                       ELSE k % 2 = 1
                 m == IF up THEN (k + 1) * q ELSE k * q
             IN  IF v < 0 THEN -m ELSE m

FAdd(a, b) == RN(a + b)
FSub(a, b) == RN(a - b)
\* one factor is always a whole number here (a pixel index), so the
\* product is a whole count of units before rounding
FMul(a, b) == RN((a * b) \div Unit)
\* a / 2.0, exact for the pixel sizes used here (whole numbers)
FHalf(a) == a \div 2
\* Python's float // : the floor of the quotient, as a float
FFloorDiv(a, b) ==
    IF b > 0 THEN Fl(a \div b) ELSE Fl((-a) \div (-b))

(********************* get_coords / get_locations **************************)
\* Raster.get_coords for one pixel pair xy (integers), pixel_size and
\* tie_point given as floats
AddConst(pixel_size, pixel_center) ==
    IF pixel_center
    THEN <<FHalf(pixel_size[1]), FHalf(pixel_size[2])>>
    ELSE <<0, 0>>

get_coords(xy, pixel_size, tie_point, pixel_center) ==
    LET add_const == AddConst(pixel_size, pixel_center)
    IN  <<FAdd(FAdd(FMul(Fl(xy[1]), pixel_size[1]), tie_point[1]), add_const[1]),
          FAdd(FAdd(FMul(Fl(xy[2]), pixel_size[2]), tie_point[2]), add_const[2])>>

\* Raster.get_locations for one coordinate pair
get_locations(coord, pixel_size, tie_point) ==
    <<FFloorDiv(FSub(coord[1], tie_point[1]), pixel_size[1]),
      FFloorDiv(FSub(coord[2], tie_point[2]), pixel_size[2])>>

(*************************** raster source *********************************)
\* GetGeoTransform() of the source: (ulx, xpixel, 0, uly, 0, ypixel), floats
GeoTransform == <<Fl(2), Fl(1), 0, Fl(6), 0, Fl(-1)>>

\* elements of a bands argument: a band name (str) or an index (int);
\* band i (from 1) is described by the name BandName(i)
BandName(i) == [str |-> i]
BandIndex(k) == [int |-> k]
IsStr(e) == DOMAIN e = {"str"}
IsNumber(e) == DOMAIN e = {"int"}

\* pixel values: finite numbers, NaN and the infinities
Num(n) == [num |-> n]
NaN == [nonfinite |-> "nan"]
PosInf == [nonfinite |-> "inf"]
isnan(v) == v = NaN
isinf(v) == v = PosInf

\* what the source holds: finite values everywhere ("none"), or a NaN at its
\* first pixel and +Infinity at its last pixel in every band ("holes")
Specials == {"none", "holes"}

Sources ==
    [cols : 1..MaxDim, rows : 1..MaxDim, bands : 1..MaxBands,
     transform : {GeoTransform}, found : {TRUE},
     nodata : {None, Some(Num(-1))}, special : Specials]

\* the rasters of a MultiRaster: three co-registered files, raster i (from
\* 0) holding i + 1 everywhere but at one pixel, where it holds the no-data
\* value; holes[i + 1] is that pixel
Layers == <<1, 2, 3>>

\* the layers a composite is made of: all three files, or the first and the
\* last
LayerChoices == {<<1, 2, 3>>, <<1, 3>>}

\* sources of kind "stack": the virtual layer stack MultiRaster.layerstack
\* builds of the chosen files, band j showing the file layers[j]
StackSources ==
    {s \in [cols : 1..MaxLifeDim, rows : 1..MaxLifeDim, bands : 1..Len(Layers),
            transform : {GeoTransform}, found : {FALSE},
            nodata : {Some(Num(-1))}, special : {"stack"},
            layers : LayerChoices,
            holes : [1..Len(Layers) ->
                        (0..(MaxLifeDim - 1)) \X (0..(MaxLifeDim - 1))]] :
        /\ s.bands = Len(s.layers)
        /\ \A i \in 1..Len(Layers) :
               s.holes[i] \in {<<0, 0>>, <<s.cols - 1, s.rows - 1>>}}

\* the value of band `band` (from 1) at column x, row y (from 0)
SrcValue(s, band, x, y) ==
    IF s.special = "stack"
    THEN IF s.holes[s.layers[band]] = <<x, y>> THEN Val(s.nodata)
         ELSE Num(s.layers[band])
    ELSE
    IF s.special = "holes" /\ x = 0 /\ y = 0 THEN NaN
    ELSE IF s.special = "holes" /\ x = s.cols - 1 /\ y = s.rows - 1 THEN PosInf
    ELSE Num(band * 100 + y * 10 + x)

\* band.ReadAsArray(xoff, yoff, win_xsize, win_ysize): GDAL refuses a window
\* that is not inside the raster; the array is indexed [row][col] from 1
WindowInside(s, w) ==
    /\ w[1] >= 0 /\ w[2] >= 0 /\ w[3] >= 1 /\ w[4] >= 1
    /\ w[1] + w[3] <= s.cols
    /\ w[2] + w[4] <= s.rows

ReadAsArray(s, band, w) ==
    [row \in 1..w[4] |-> [col \in 1..w[3] |->
        SrcValue(s, band, w[1] + col - 1, w[2] + row - 1)]]

\* a fresh Raster object, raster.py 30-45
NewRaster ==
    [init |-> FALSE, shape |-> None, transform |-> None, bnames |-> None,
     nodatavalue |-> None, datasource |-> FALSE,
     tile_grid |-> <<>>, ntiles |-> None]

(***************************** initialize **********************************)
\* Raster.initialize with get_array=False: the fields after the call, or the
\* fields and the error when no datasource is found
Initialized(r, s) ==
    IF s.found \/ r.datasource
    THEN [r EXCEPT !.init = TRUE,
                   !.datasource = TRUE,
                   !.bnames = Some([i \in 1..s.bands |-> BandName(i)]),
                   !.shape = Some([bands |-> s.bands, rows |-> s.rows, cols |-> s.cols]),
                   !.transform = Some(s.transform),
                   !.nodatavalue = s.nodata]
    ELSE [r EXCEPT !.init = TRUE]

InitFails(r, s) == ~(s.found \/ r.datasource)

\* "if not self.init: self.initialize()"
Lazy(r, s) == IF r.init THEN r ELSE Initialized(r, s)

(*************************** make_tile_grid ********************************)
\* Raster.get_pixel_bounds without bound_coords
get_pixel_bounds(r) ==
    [xmin |-> 0, xmax |-> Val(r.shape).cols, ymin |-> 0, ymax |-> Val(r.shape).rows]

\* an extent that is never clipped at the far edge
TileExtentMut(p, pmax, size) == size

\* the clipped extent of a tile starting at p along one axis
TileExtent(p, pmax, size) == IF p + size < pmax THEN size ELSE pmax - p

MakeTile(r, x, y, cols, rows, b) ==
    LET t == Val(r.transform)
        tie_pt == get_coords(<<x, y>>, <<t[2], t[6]>>, <<t[1], t[4]>>, FALSE)
        right == FAdd(tie_pt[1], FMul(t[2], Fl(cols)))
        low == FAdd(tie_pt[2], FMul(t[6], Fl(rows)))
    IN  [block_coords |-> <<x, y, cols, rows>>,
         tie_point |-> tie_pt,
         bound_coords |-> <<tie_pt, <<right, tie_pt[2]>>, <<right, low>>,
                            <<tie_pt[1], low>>, tie_pt>>,
         first_pixel |-> <<b.xmin, b.ymin>>]

\* the tiles listed column by column
TilesInMut(r, b, tile_xsize, tile_ysize) ==
    LET ys == PyRange(b.ymin, b.ymax, tile_ysize)
        xs == PyRange(b.xmin, b.xmax, tile_xsize)
        ny == Len(ys)
    IN  [i \in 1..(Len(xs) * ny) |->
            LET x == xs[((i - 1) \div ny) + 1]
                y == ys[((i - 1) % ny) + 1]
            IN  MakeTile(r, x, y,
                         TileExtent(x, b.xmax, tile_xsize),
                         TileExtent(y, b.ymax, tile_ysize), b)]

\* the tiles the two loops of make_tile_grid append for the bounds b
TilesIn(r, b, tile_xsize, tile_ysize) ==
    LET ys == PyRange(b.ymin, b.ymax, tile_ysize)
        xs == PyRange(b.xmin, b.xmax, tile_xsize)
        nx == Len(xs)
    IN  [i \in 1..(Len(ys) * nx) |->
            LET y == ys[((i - 1) \div nx) + 1]
                x == xs[((i - 1) % nx) + 1]
            IN  MakeTile(r, x, y,
                         TileExtent(x, b.xmax, tile_xsize),
                         TileExtent(y, b.ymax, tile_ysize), b)]

\* the tiles one make_tile_grid run appends, in the order of its two loops
NewTiles(r, tile_xsize, tile_ysize) ==
    TilesIn(r, get_pixel_bounds(r), tile_xsize, tile_ysize)

\* Raster.make_tile_grid(tile_xsize, tile_ysize): the Raster after the call
make_tile_grid(r0, s, tile_xsize, tile_ysize) ==
    LET r == Lazy(r0, s)
        grid == r.tile_grid \o NewTiles(r, tile_xsize, tile_ysize)
    IN  [r EXCEPT !.tile_grid = grid, !.ntiles = Some(Len(grid))]

(********************* make_tile_grid, bound_coords ************************)
\* int() of a float that holds a whole number
ToInt(v) == v \div Unit

\* bound_coords (xmin, xmax, ymin, ymax) as pixel numbers, raster.py
\* 689-701: taken as they are, or from the pixel locations of the corners
\* of a region in the coordinates of the raster
RawBounds(r, bound_coords, coords_type) ==
    IF coords_type = "pixel"
    THEN [xmin |-> bound_coords[1], xmax |-> bound_coords[2],
          ymin |-> bound_coords[3], ymax |-> bound_coords[4]]
    ELSE LET t == Val(r.transform)
             lo == get_locations(<<bound_coords[1], bound_coords[4]>>,
                                 <<t[2], t[6]>>, <<t[1], t[4]>>)
             hi == get_locations(<<bound_coords[2], bound_coords[3]>>,
                                 <<t[2], t[6]>>, <<t[1], t[4]>>)
         IN  [xmin |-> ToInt(Min2(lo[1], hi[1])), xmax |-> ToInt(Max2(lo[1], hi[1])),
              ymin |-> ToInt(Min2(lo[2], hi[2])), ymax |-> ToInt(Max2(lo[2], hi[2]))]

\* bounds left as they were given
ClampMut(r, b) == b

\* the four ifs of raster.py 705-712
Clamp(r, b) ==
    [xmin |-> IF b.xmin < 0 THEN 0 ELSE b.xmin,
     xmax |-> IF b.xmax > Val(r.shape).cols THEN Val(r.shape).cols ELSE b.xmax,
     ymin |-> IF b.ymin < 0 THEN 0 ELSE b.ymin,
     ymax |-> IF b.ymax > Val(r.shape).rows THEN Val(r.shape).rows ELSE b.ymax]

\* Raster.get_pixel_bounds(bound_coords, coords_type) on a Raster with
\* metadata: the bounds or the ValueError of raster.py 714-717
BoundsOf(r, bound_coords, coords_type) ==
    LET b == Clamp(r, RawBounds(r, bound_coords, coords_type))
    IN  IF coords_type \notin {"pixel", "crs"} THEN Raise("ValueError")
        ELSE IF b.xmin >= b.xmax \/ b.ymin >= b.ymax THEN Raise("ValueError")
        ELSE Ok(b)

\* Raster.make_tile_grid(tile_xsize, tile_ysize, bound_coords, coords_type):
\* the Raster after the call and the error, if any
make_tile_grid_in(r0, s, tile_xsize, tile_ysize, bound_coords, coords_type) ==
    LET r == Lazy(r0, s)
        b == BoundsOf(r, bound_coords, coords_type)
        grid == r.tile_grid \o TilesIn(r, b.val, tile_xsize, tile_ysize)
    IN  IF b.kind = "raise" THEN [ras |-> r, out |-> b]
        ELSE [ras |-> [r EXCEPT !.tile_grid = grid, !.ntiles = Some(Len(grid))],
              out |-> Ok(None)]

(****************************** get_tile ***********************************)
\* pixel deficit on the left, top, right and bottom edges, raster.py 826-836;
\* the names are the code's: tile_rows is block_coords[2], tile_cols is
\* block_coords[3]
pixel_deficit(ux, uy, tile_rows, tile_cols, ras_rows, ras_cols, edge_buffer) ==
    IF edge_buffer > 0
    THEN <<IF ux < edge_buffer THEN edge_buffer - ux ELSE 0,
           IF uy < edge_buffer THEN edge_buffer - uy ELSE 0,
           IF ras_cols - ux - tile_cols + 1 < edge_buffer
             THEN ras_cols - ux - tile_cols + 1 ELSE 0,
           IF ras_rows - uy - tile_rows + 1 < edge_buffer
             THEN ras_rows - uy - tile_rows + 1 ELSE 0>>
    ELSE <<0, 0, 0, 0>>

\* the window handed to ReadAsArray: (xoff, yoff, win_xsize, win_ysize)
new_block_coords(r, block_coords, edge_buffer) ==
    LET ux == block_coords[1]
        uy == block_coords[2]
        tile_rows == block_coords[3]
        tile_cols == block_coords[4]
        d == pixel_deficit(ux, uy, tile_rows, tile_cols,
                           Val(r.shape).rows, Val(r.shape).cols, edge_buffer)
    IN  <<(ux - edge_buffer) + d[1],
          (uy - edge_buffer) + d[2],
          tile_rows + (2 * edge_buffer - d[2] + d[4]),
          tile_cols + (2 * edge_buffer - d[1] + d[3])>>

\* nan_replacement=None: the no-data value, or 0 when there is none
Replacement(r, nan_replacement) ==
    IF IsNone(nan_replacement)
    THEN IF IsNone(r.nodatavalue) THEN Num(0) ELSE Val(r.nodatavalue)
    ELSE Val(nan_replacement)

Sanitized(v, repl) == IF isnan(v) \/ isinf(v) THEN repl ELSE v

\* a read that sanitizes one band and no more
SanitizesMut(nbands, finite_only) == nbands = 1 /\ finite_only

\* does the read of more than one band sanitize
Sanitizes(nbands, finite_only) == nbands # 1 /\ finite_only

\* Raster.get_tile on an initialized Raster r; bands is a list of band
\* numbers (from 1). The result is the window and the array or the error.
get_tile(r, s, bands, block_coords, finite_only, edge_buffer, nan_replacement) ==
    LET repl == Replacement(r, nan_replacement)
        w == new_block_coords(r, block_coords, edge_buffer)
        bad == \E j \in 1..Len(bands) : bands[j] \notin 1..s.bands
        raw == [j \in 1..Len(bands) |-> ReadAsArray(s, bands[j], w)]
    IN  [window |-> w,
         out |-> IF bad \/ ~WindowInside(s, w) THEN Raise("RuntimeError")
                 ELSE IF Len(bands) = 1 THEN Ok(raw[1])
                 ELSE IF Sanitizes(Len(bands), finite_only)
                 THEN Ok([j \in 1..Len(bands) |-> [row \in 1..w[4] |->
                          [col \in 1..w[3] |-> Sanitized(raw[j][row][col], repl)]]])
                 ELSE Ok(raw)]

\* bands=None in get_tile: every band of the Raster
AllBands(r) == [i \in 1..Val(r.shape).bands |-> i]

(**************************** get_next_tile ********************************)
\* list.index: the zero-based position of the first equal element
ListIndex(l, e) == (CHOOSE i \in 1..Len(l) : l[i] = e /\ \A j \in 1..(i - 1) : l[j] # e) - 1

\* the band number a name is turned into, raster.py 908
NameToBand(r, e) == ListIndex(Val(r.bnames), e)

\* raster.py 902-912 for bands=None or a list: the list handed to get_tile
ResolveBands(r, sel) ==
    IF IsNone(sel) THEN Ok(AllBands(r))
    ELSE LET l == Val(sel)
         IN  IF \A i \in 1..Len(l) : IsStr(l[i])
             THEN IF \A i \in 1..Len(l) : \E j \in 1..Len(Val(r.bnames)) : Val(r.bnames)[j] = l[i]
                  THEN Ok([i \in 1..Len(l) |-> NameToBand(r, l[i])])
                  ELSE Raise("ValueError")
             ELSE Ok([i \in 1..Len(l) |-> l[i].int + 1])

\* a get_next_tile that builds a grid on every call
NeedsGridMut(r) == TRUE

\* does get_next_tile build the grid itself, raster.py 893
NeedsGrid(r) == IsNone(r.ntiles)

\* the while loop from its test to the next yield, the end or an error,
\* raster.py 915-925, for generator g at tile_counter tc
RunToYield(r, g, tc) ==
    IF tc < Val(r.ntiles)
    THEN LET tile == r.tile_grid[tc + 1]
             res == get_tile(r, src, g.bands, tile.block_coords, g.args.finite_only,
                             g.args.edge_buffer, Some(g.nan_replacement))
         IN  IF g.args.get_array /\ res.out.kind = "raise"
             THEN [g EXCEPT !.pc = "raised", !.tile_counter = tc]
             ELSE [g EXCEPT !.pc = "suspended", !.tile_counter = tc,
                            !.yields = Append(g.yields,
                                <<tile.tie_point,
                                  IF g.args.get_array THEN Some(res.out.val) ELSE None>>)]
    ELSE [g EXCEPT !.pc = "done", !.tile_counter = tc]

(****************************** actions ************************************)
\* tile sizes and band counts in the Raster's life
LifeTiles == {1, 2}
LifeBands == {2}

NoCoords == [pc |-> "idle"]

Init ==
    /\ src \in Sources
    /\ ras = NewRaster
    /\ gen = None
    /\ ret = [op |-> "new"]
    /\ cc = NoCoords

\* the client calls the Raster's other methods while it holds no generator
\* or between two pulls of the one it holds
Between == IF IsNone(gen) THEN TRUE ELSE Val(gen).pc = "suspended"

Initialize ==
    /\ Between
    /\ ras' = Initialized(ras, src)
    /\ ret' = [op |-> "initialize",
               out |-> IF InitFails(ras, src) THEN Raise("ValueError") ELSE Ok(None)]
    /\ UNCHANGED <<src, gen, cc>>

\* a call that initializes lazily stops there when no metadata could be read:
\* initialize raises ValueError, a Raster left half initialized a TypeError
Unset(r) == IsNone(Lazy(r, src).shape)
UnsetError(r) == IF r.init THEN Raise("TypeError") ELSE Raise("ValueError")

\* the first grid is always built; a further run only while tile_grid
\* stays within MaxGridLen tiles
CanBuild(r, tw, th) ==
    \/ r.tile_grid = <<>>
    \/ Len(make_tile_grid(r, src, tw, th).tile_grid) <= MaxGridLen

MakeTileGridOf(sizes) ==
    \E tw \in sizes, th \in sizes :
        /\ Between
        /\ ~Unset(ras) => CanBuild(ras, tw, th)
        /\ IF Unset(ras)
           THEN /\ ras' = Lazy(ras, src)
                /\ ret' = [op |-> "make_tile_grid", out |-> UnsetError(ras)]
           ELSE /\ ras' = make_tile_grid(ras, src, tw, th)
                /\ ret' = [op |-> "make_tile_grid", tile_xsize |-> tw,
                           tile_ysize |-> th, before |-> Len(ras.tile_grid),
                           out |-> Ok(None)]
        /\ UNCHANGED <<src, gen, cc>>

\* get_tile(bands, block_coords, finite_only, edge_buffer, nan_replacement)
\* for a tile of the grid
GetTile ==
    \E k \in 1..Len(ras.tile_grid), b \in 0..MaxBuf,
       bands \in {None, Some(<<1>>), Some(<<1, 2>>)},
       fr \in {<<TRUE, None>>, <<TRUE, Some(Num(7))>>, <<FALSE, None>>} :
        LET bc == ras.tile_grid[k].block_coords
            bl == IF IsNone(bands) THEN AllBands(ras) ELSE Val(bands)
            res == get_tile(ras, src, bl, bc, fr[1], b, fr[2])
        IN  /\ ret.op # "get_tile"   \* a read changes nothing a second read sees
            /\ ~Unset(ras) /\ ras.init
            /\ ret' = [op |-> "get_tile", bands |-> bl, block_coords |-> bc,
                       finite_only |-> fr[1], edge_buffer |-> b,
                       nan_replacement |-> fr[2],
                       window |-> res.window, out |-> res.out]
            /\ UNCHANGED <<src, ras, gen, cc>>

\* make_tile_grid(tile_xsize, tile_ysize)
MakeTileGrid == MakeTileGridOf(LifeTiles)

\* the first make_tile_grid call on a Raster
MakeFirstGrid == ras.tile_grid = <<>> /\ MakeTileGridOf(1..MaxTile)

\* the arguments of a get_next_tile call: all bands, or the first band or
\* the first two by index or by name
BandSels ==
    {None, Some(<<BandIndex(0)>>), Some(<<BandName(1)>>),
     Some(<<BandIndex(0), BandIndex(1)>>), Some(<<BandName(1), BandName(2)>>)}

\* arrays of all bands with and without an edge buffer, arrays of chosen
\* bands, or tie points alone; square tiles
GenArgs ==
    {a \in [tile_xsize : LifeTiles, tile_ysize : LifeTiles, bands : BandSels,
            get_array : BOOLEAN, finite_only : {TRUE}, edge_buffer : {0, 1},
            nan_replacement : {None}] :
        /\ a.tile_ysize = a.tile_xsize
        /\ a.edge_buffer = 1 => IsNone(a.bands)
        /\ ~a.get_array => (IsNone(a.bands) /\ a.edge_buffer = 0)}

Live(g) == ~IsNone(g) /\ Val(g).pc \in {"created", "suspended"}

\* g = ras.get_next_tile(...): no code of the body runs yet. The client holds
\* one generator at a time; after abandoning one it calls again with the
\* same arguments.
NewGen ==
    \E a \in GenArgs :
        /\ ~Live(gen)
        /\ ~IsNone(gen) => (Val(gen).pc = "closed" /\ ~Val(gen).restarted /\ a = Val(gen).args)
        /\ gen' = Some([args |-> a, pc |-> "created", tile_counter |-> 0,
                        bands |-> <<>>, nan_replacement |-> Num(0), yields |-> <<>>,
                        restarted |-> ~IsNone(gen),
                        prev |-> IF IsNone(gen) THEN <<>> ELSE Val(gen).yields])
        /\ ret' = [op |-> "get_next_tile"]
        /\ UNCHANGED <<src, ras, cc>>

\* the first next(g): the body up to the first yield, raster.py 890-925
FirstPull ==
    /\ Live(gen) /\ Val(gen).pc = "created"
    /\ IF Unset(ras)
       THEN /\ ras' = Lazy(ras, src)
            /\ gen' = Some([Val(gen) EXCEPT !.pc = "raised"])
       ELSE \E r2 \in {IF NeedsGrid(Lazy(ras, src))
                        THEN make_tile_grid(Lazy(ras, src), src,
                                            Val(gen).args.tile_xsize,
                                            Val(gen).args.tile_ysize)
                        ELSE Lazy(ras, src)} :
            \E bs \in {ResolveBands(r2, Val(gen).args.bands)} :
            \E g1 \in {[Val(gen) EXCEPT
                           !.nan_replacement =
                               Replacement(r2, Val(gen).args.nan_replacement),
                           !.bands = IF bs.kind = "ok" THEN bs.val ELSE <<>>]} :
                /\ ras' = r2
                /\ gen' = Some(IF bs.kind = "raise"
                               THEN [g1 EXCEPT !.pc = "raised"]
                               ELSE RunToYield(r2, g1, 0))
    /\ ret' = [op |-> "next"]
    /\ UNCHANGED <<src, cc>>

\* a later next(g): tile_counter += 1 and the loop again, raster.py 927, 915
Pull ==
    /\ Live(gen) /\ Val(gen).pc = "suspended"
    /\ gen' = Some(RunToYield(ras, Val(gen), Val(gen).tile_counter + 1))
    /\ ret' = [op |-> "next"]
    /\ UNCHANGED <<src, ras, cc>>

\* the client abandons the generator (g.close(), or drops it)
CloseGen ==
    /\ Live(gen)
    /\ gen' = Some([Val(gen) EXCEPT !.pc = "closed"])
    /\ ret' = [op |-> "close"]
    /\ UNCHANGED <<src, ras, cc>>

\* no geometry at all, or POINT wkts at the centres of the first MaxGeoms
\* pixels of the raster in row-major order: pairwise different pixels
PixelAt(s, i) == <<i % s.cols, i \div s.cols>>
WktInputs(s) ==
    {[i \in 1..n |-> PixelAt(s, i - 1)] : n \in {0, Min2(MaxGeoms, s.cols * s.rows)}}

\* the wkt loop, raster.py 1012-1035: the loop variable wkt_string runs over
\* range(len(wkt_strings)), so the first round hands an int to
\* ogr.CreateGeometryFromWkt (or to "'MULTI' in"), which is a TypeError
WktLoop(wkt_strings) ==
    IF Len(wkt_strings) > 0 THEN Raise("TypeError") ELSE Ok(<<>>)

\* the tile loop over an empty id_geom_dict, raster.py 1046-1053: every tile
\* is read, nothing is collected
TileLoop(r, s) ==
    IF \E k \in 1..Len(r.tile_grid) :
           get_tile(r, s, AllBands(r), r.tile_grid[k].block_coords,
                    TRUE, 0, None).out.kind = "raise"
    THEN Raise("RuntimeError")
    ELSE Ok(<<>>)

\* tile_size of extract_geom: the keyword, or (shape[1], shape[2]),
\* raster.py 969-972
TileSizeOf(r, tile_size) ==
    IF IsNone(tile_size) THEN <<Val(r.shape).rows, Val(r.shape).cols>>
    ELSE Val(tile_size)

\* extract_geom(wkt_strings, tile_size=...) with the other arguments at
\* their defaults. self.shape is read before initialize is called (raster.py 966);
\* the result is a sequence, entry i for the key str(i - 1).
ExtractGeom ==
    \E wkt_strings \in WktInputs(src), tile_size \in {None, Some(<<1, 1>>)} :
        /\ Between
        /\ IF IsNone(ras.shape)
           THEN /\ ras' = ras
                /\ ret' = [op |-> "extract_geom", wkt_strings |-> wkt_strings,
                           tile_size |-> tile_size, out |-> Raise("TypeError")]
           ELSE \E r1 \in {Initialized(ras, src)} :
                \E ids \in {WktLoop(wkt_strings)} :
                    IF ids.kind = "raise"
                    THEN /\ ras' = r1
                         /\ ret' = [op |-> "extract_geom",
                                    wkt_strings |-> wkt_strings,
                                    tile_size |-> tile_size, out |-> ids]
                    ELSE \E ts \in {TileSizeOf(r1, tile_size)} :
                         \E r2 \in {make_tile_grid(r1, src, ts[1], ts[2])} :
                             /\ CanBuild(r1, ts[1], ts[2])
                             /\ ras' = r2
                             /\ ret' = [op |-> "extract_geom",
                                        wkt_strings |-> wkt_strings,
                                        tile_size |-> tile_size,
                                        out |-> TileLoop(r2, src)]
        /\ UNCHANGED <<src, gen, cc>>

Next == Initialize \/ MakeTileGrid \/ NewGen \/ FirstPull \/ Pull \/ CloseGen
        \/ ExtractGeom

NextTile == Initialize \/ MakeFirstGrid \/ GetTile

(********************** the coordinate pair alone **************************)
\* pixel sizes: whole numbers, either sign, never zero
PixelSizes == {Fl(n) : n \in (-MaxPixSize..MaxPixSize) \ {0}}
\* tie points: 0.0, 2.0 and fractions that fit the significand
TiePoints == {t \in {Fl(0), Fl(2), 5, 61, -61} : RN(t) = t}

InitCoords ==
    /\ src = [cols |-> MaxPix + 1, rows |-> MaxPix + 1, bands |-> 1,
              transform |-> GeoTransform, found |-> TRUE, nodata |-> None,
              special |-> "none"]
    /\ ras = NewRaster
    /\ gen = None
    /\ ret = [op |-> "new"]
    /\ cc \in [pc : {"input"},
                xy : (0..MaxPix) \X (0..MaxPix),
                pixel_size : PixelSizes \X PixelSizes,
                tie_point : TiePoints \X TiePoints,
                coords : {None}, locs : {None}]

\* Raster.get_coords(xy, pixel_size, tie_point, pixel_center=False)
GetCoords ==
    /\ cc.pc = "input"
    /\ cc' = [cc EXCEPT !.pc = "coords",
                        !.coords = Some(get_coords(cc.xy, cc.pixel_size,
                                                   cc.tie_point, FALSE))]
    /\ UNCHANGED <<src, ras, gen, ret>>

\* Raster.get_locations(coords, pixel_size, tie_point) on what get_coords gave
GetLocations ==
    /\ cc.pc = "coords"
    /\ cc' = [cc EXCEPT !.pc = "locs",
                        !.locs = Some(get_locations(Val(cc.coords), cc.pixel_size,
                                                    cc.tie_point))]
    /\ UNCHANGED <<src, ras, gen, ret>>

NextCoords == GetCoords \/ GetLocations

SpecCoords == InitCoords /\ [][NextCoords]_vars

\* the Raster's life: a small raster of finite data, no no-data value
InitLife ==
    /\ Init
    /\ src.special = "none" /\ src.nodata = None
    /\ src.cols <= MaxLifeDim /\ src.rows <= MaxLifeDim
    /\ src.bands \in LifeBands

Spec == InitLife /\ [][Next]_vars

\* tile reads on the tiles of one grid; a source with non-finite values
\* declares a no-data value
InitTile == Init /\ (src.special = "holes") = (src.nodata # None)

SpecTile == InitTile /\ [][NextTile]_vars

(************************ MultiRaster.composite ****************************)
\* composite_type=...: the keywords of raster.py 1614-1625, or another word
CompositeTypes == {"mean", "median", "min", "max", "pctl_50", "bogus"}
KnownComposite(composite_type) == composite_type # "bogus"

\* sum / n of whole numbers, n at most 3
Ratio(sum, n) ==
    IF sum % n = 0 THEN Num(sum \div n) ELSE [num |-> sum, den |-> n]

RECURSIVE SeqSum(_)
SeqSum(xs) == IF Len(xs) = 0 THEN 0 ELSE Head(xs).num + SeqSum(Tail(xs))

\* the k-th smallest of pairwise different numbers
Kth(xs, k) ==
    CHOOSE v \in {xs[i].num : i \in 1..Len(xs)} :
        Cardinality({i \in 1..Len(xs) : xs[i].num < v}) = k - 1

Median(xs) ==
    IF Len(xs) % 2 = 1 THEN Num(Kth(xs, (Len(xs) + 1) \div 2))
    ELSE Ratio(Kth(xs, Len(xs) \div 2) + Kth(xs, Len(xs) \div 2 + 1), 2)

\* x[x != lras.nodatavalue] of the values of one pixel through the bands
NotNoData(r, xs) == SelectSeq(xs, LAMBDA v : Some(v) # r.nodatavalue)

\* the reducer on the values left: numpy's mean, median and percentile of
\* nothing are nan, its min and max of nothing raise ValueError
StackReduce(composite_type, xs) ==
    IF Len(xs) = 0
    THEN IF composite_type \in {"min", "max"} THEN Raise("ValueError") ELSE Ok(NaN)
    ELSE IF composite_type = "mean" THEN Ok(Ratio(SeqSum(xs), Len(xs)))
    ELSE IF composite_type = "min" THEN Ok(Num(Kth(xs, 1)))
    ELSE IF composite_type = "max" THEN Ok(Num(Kth(xs, Len(xs))))
    ELSE Ok(Median(xs))

\* np.apply_along_axis(..., 0, tile_arr) on a tile of several bands
ReduceTile(r, composite_type, tile_arr) ==
    [row \in 1..Len(tile_arr[1]) |-> [col \in 1..Len(tile_arr[1][1]) |->
        StackReduce(composite_type,
                    NotNoData(r, [j \in 1..Len(tile_arr) |-> tile_arr[j][row][col]]))]]

\* a step that hands back an empty result whatever happened
TileStepMut(r, g, composite_type) ==
    Ok([row \in 1..MaxLifeDim |-> [col \in 1..MaxLifeDim |-> Num(0)]])

\* one round of the for loop, raster.py 1608-1626: the pull of the generator
\* may raise, the composite type may be unknown, the reducer may raise
TileStep(r, g, composite_type) ==
    IF g.pc = "raised" THEN Raise("RuntimeError")
    ELSE IF ~KnownComposite(composite_type) THEN Raise("ValueError")
    ELSE LET red == ReduceTile(r, composite_type, Val(g.yields[Len(g.yields)][2]))
         IN  IF \E row \in 1..Len(red) : \E col \in 1..Len(red[row]) :
                    red[row][col].kind = "raise"
             THEN Raise("ValueError")
             ELSE Ok([row \in 1..Len(red) |-> [col \in 1..Len(red[row]) |->
                         red[row][col].val]])

\* out_arr[_y: (_y+_rows), _x: (_x+_cols)] = temp_arr, raster.py 1629
WriteTile(out_arr, bc, temp_arr) ==
    [row \in 1..Len(out_arr) |-> [col \in 1..Len(out_arr[row]) |->
        IF /\ row - 1 >= bc[2] /\ row - 1 < bc[2] + bc[4]
           /\ col - 1 >= bc[1] /\ col - 1 < bc[1] + bc[3]
        THEN temp_arr[row - bc[2]][col - bc[1]]
        ELSE out_arr[row][col]]]

\* the for loop over lras.get_next_tile(bands=t_order), raster.py 1606-1630,
\* from generator state g on: the array, or the error that ends the call
RECURSIVE CompositeLoop(_, _, _, _)
CompositeLoop(r, g, composite_type, out_arr) ==
    IF g.pc = "done" THEN Ok(out_arr)
    ELSE LET step == TileStep(r, g, composite_type)
         IN  IF step.kind = "raise" THEN step
             ELSE IF g.pc # "suspended" THEN Ok(out_arr)
             ELSE CompositeLoop(r, RunToYield(r, g, g.tile_counter + 1),
                                composite_type,
                                WriteTile(out_arr,
                                          r.tile_grid[g.tile_counter + 1].block_coords,
                                          step.val))

\* layer_indices of the call that stacks the files src shows: None for all
\* of them unless the caller lists them
LayerIndices(s, listed) ==
    IF s.layers = Layers /\ ~listed THEN None
    ELSE Some([j \in 1..Len(s.layers) |-> s.layers[j] - 1])

\* t_order, raster.py 1568-1572
TOrder(layer_indices) ==
    IF IsNone(layer_indices) THEN [i \in 1..Len(Layers) |-> i]
    ELSE [j \in 1..Len(Val(layer_indices)) |-> Val(layer_indices)[j] + 1]

\* lras after raster.py 1581-1599: a Raster on the stack, initialized, with
\* its grid of square tiles
StackRaster(s, tile_size) ==
    make_tile_grid(Initialized([NewRaster EXCEPT !.datasource = TRUE], s),
                   s, tile_size, tile_size)

\* lras.get_next_tile(bands=t_order) up to its first yield
StackGen(r, t_order) ==
    LET sel == Some([j \in 1..Len(t_order) |-> BandIndex(t_order[j])])
        g == [args |-> [tile_xsize |-> 1024, tile_ysize |-> 1024, bands |-> sel,
                        get_array |-> TRUE, finite_only |-> TRUE,
                        edge_buffer |-> 0, nan_replacement |-> None],
              pc |-> "created", tile_counter |-> 0,
              bands |-> ResolveBands(r, sel).val,
              nan_replacement |-> Replacement(r, None), yields |-> <<>>,
              restarted |-> FALSE, prev |-> <<>>]
    IN  RunToYield(r, g, 0)

\* MultiRaster.composite(layer_indices, outfile, composite_type, tile_size,
\* write_raster) on the stack src shows
Composite ==
    \E listed \in BOOLEAN, composite_type \in CompositeTypes,
       tile_size \in LifeTiles, write_raster \in BOOLEAN :
        \E lras \in {StackRaster(src, tile_size)} :
        \E g \in {StackGen(lras, TOrder(LayerIndices(src, listed)))} :
        \E out \in {CompositeLoop(lras, g, composite_type,
                                  [row \in 1..src.rows |->
                                      [col \in 1..src.cols |-> Num(0)]])} :
            /\ ras' = lras
            /\ ret' = [op |-> "composite",
                       layer_indices |-> LayerIndices(src, listed),
                       composite_type |-> composite_type,
                       tile_size |-> tile_size,
                       write_raster |-> write_raster,
                       bands |-> g.bands,
                       out |-> out,
                       returned |-> out.kind = "ok" /\ ~write_raster,
                       written |-> out.kind = "ok" /\ write_raster]
            /\ UNCHANGED <<src, gen, cc>>

InitComposite ==
    /\ src \in StackSources
    /\ ras = NewRaster
    /\ gen = None
    /\ ret = [op |-> "new"]
    /\ cc = NoCoords

NextComposite == Composite

SpecComposite == InitComposite /\ [][NextComposite]_vars

(******************* extract_geom with its keywords ************************)
\* a wkt string: its geometry type and the pixels its points sit in
Point(p) == [type |-> "POINT", parts |-> <<p>>]
MultiPoint(ps) == [type |-> "MULTIPOINT", parts |-> ps]

\* the first MaxGeoms pixels of the raster in row-major order
FirstPixels(s) ==
    [i \in 1..Min2(MaxGeoms, s.cols * s.rows) |-> PixelAt(s, i - 1)]

\* nothing, one POINT per pixel, or a MULTIPOINT of the pixels and a POINT
WktRecords(s) ==
    {<<>>,
     [i \in 1..Len(FirstPixels(s)) |-> Point(FirstPixels(s)[i])],
     <<MultiPoint(FirstPixels(s)), Point(PixelAt(s, 0))>>}

\* reducer=...: None, the keywords of raster.py 1149-1161, or another word
Reducers ==
    {None, Some("mean"), Some("median"), Some("min"), Some("max"),
     Some("percentile_50"), Some("bogus")}

KnownReducer(reducer) == ~IsNone(reducer) /\ Val(reducer) # "bogus"

\* the warnings of the reducer block, raster.py 1146-1168: the block sits in
\* the tile loop and warned is reset for every tile, so an unknown reducer
\* warns once per tile in which the result has an entry
Warnings(r, reducer, out) ==
    IF IsNone(reducer) \/ KnownReducer(reducer) \/ Len(out) = 0
    THEN 0
    ELSE Len(r.tile_grid)

\* extract_geom(wkt_strings, geom_id, tile_size=..., multi_geom_separate=...,
\* pass_pixel_coords=..., reducer=...) with band_order=None
ExtractGeomKw ==
    \E wkt_strings \in WktRecords(src), tile_size \in {None, Some(<<1, 1>>)},
       with_id \in BOOLEAN, multi_geom_separate \in BOOLEAN,
       pass_pixel_coords \in BOOLEAN, reducer \in Reducers :
        \E call \in {[op |-> "extract_geom", wkt_strings |-> wkt_strings,
                       geom_id |-> IF with_id
                                   THEN Some([i \in 1..Len(wkt_strings) |-> 10 + i])
                                   ELSE None,
                       tile_size |-> tile_size,
                       multi_geom_separate |-> multi_geom_separate,
                       pass_pixel_coords |-> pass_pixel_coords,
                       reducer |-> reducer]} :
            /\ ret.op # "extract_geom"
            /\ IF IsNone(ras.shape)
               THEN /\ ras' = ras
                    /\ ret' = call @@ [out |-> Raise("TypeError"), warnings |-> 0]
               ELSE \E r1 \in {Initialized(ras, src)} :
                    \E ids \in {WktLoop(wkt_strings)} :
                        IF ids.kind = "raise"
                        THEN /\ ras' = r1
                             /\ ret' = call @@ [out |-> ids, warnings |-> 0]
                        ELSE \E ts \in {TileSizeOf(r1, tile_size)} :
                             \E r2 \in {make_tile_grid(r1, src, ts[1], ts[2])} :
                                 /\ CanBuild(r1, ts[1], ts[2])
                                 /\ ras' = r2
                                 /\ ret' = call @@
                                        [out |-> TileLoop(r2, src),
                                         warnings |-> Warnings(r2, reducer, ids.val)]
            /\ UNCHANGED <<src, gen, cc>>

NextExtract == Initialize \/ ExtractGeomKw

SpecExtract == InitLife /\ [][NextExtract]_vars

(****************** make_tile_grid with bound_coords ***********************)
\* bound_coords=(xmin, xmax, ymin, ymax) in pixels: each side inside the
\* smallest raster or beyond every raster
PixelRegions ==
    {<<xmin, xmax, ymin, ymax>> :
        xmin \in {-1, 1}, xmax \in {1, MaxLifeDim + 1},
        ymin \in {-1, 1}, ymax \in {1, MaxLifeDim + 1}}

\* the same regions in the coordinates of GeoTransform
CrsRegions ==
    {<<FAdd(GeoTransform[1], Fl(b[1])), FAdd(GeoTransform[1], Fl(b[2])),
       FSub(GeoTransform[4], Fl(b[4])), FSub(GeoTransform[4], Fl(b[3]))>> :
        b \in PixelRegions}

BoundArgs ==
    (PixelRegions \X {"pixel", "bogus"}) \cup (CrsRegions \X {"crs"})

\* make_tile_grid(tile_xsize, tile_ysize, bound_coords, coords_type) with
\* square tiles, on a Raster that holds at most MaxEarlier tiles
MakeTileGridIn ==
    \E tw \in LifeTiles, a \in BoundArgs : \E th \in {tw} :
        /\ ret.op # "make_tile_grid_in"
        /\ Len(ras.tile_grid) <= MaxEarlier
        /\ IF Unset(ras)
           THEN /\ ras' = Lazy(ras, src)
                /\ ret' = [op |-> "make_tile_grid_in", out |-> UnsetError(ras)]
           ELSE \E res \in {make_tile_grid_in(ras, src, tw, th, a[1], a[2])} :
                /\ Len(res.ras.tile_grid) <= MaxGridLen
                /\ ras' = res.ras
                /\ ret' = [op |-> "make_tile_grid_in", tile_xsize |-> tw,
                           tile_ysize |-> th, bound_coords |-> a[1],
                           coords_type |-> a[2], tile_grid |-> ras.tile_grid,
                           ntiles |-> ras.ntiles, out |-> res.out]
        /\ UNCHANGED <<src, gen, cc>>

NextBounds == Initialize \/ MakeTileGrid \/ MakeTileGridIn

SpecBounds == InitLife /\ [][NextBounds]_vars

(******************* get_tile for any block_coords *************************)
\* upper-left corners before, at and past each edge of the raster
Corners(n) == {-2, -1, 0, n - 1, n, n + 1}

\* get_tile(block_coords=..., edge_buffer=...) for all bands of an
\* initialized Raster, block_coords given by the caller
GetTileAt ==
    \E ux \in Corners(src.cols), uy \in Corners(src.rows),
       tile_rows \in 1..MaxTile, tile_cols \in 1..MaxTile, b \in 0..MaxBuf :
        /\ ret.op = "initialize"
        /\ ~Unset(ras) /\ ras.init
        /\ \E res \in {get_tile(ras, src, AllBands(ras),
                                 <<ux, uy, tile_rows, tile_cols>>, TRUE, b, None)} :
               ret' = [op |-> "get_tile_at",
                       block_coords |-> <<ux, uy, tile_rows, tile_cols>>,
                       edge_buffer |-> b, window |-> res.window, out |-> res.out]
        /\ UNCHANGED <<src, ras, gen, cc>>

NextOutside == Initialize \/ GetTileAt

SpecOutside == InitTile /\ [][NextOutside]_vars

(**************** one round of extract_geom's tile loop ********************)
\* id_geom_dict: POINT geometries at the centres of pixels of the raster,
\* entry i under the key str(i - 1)
GeomLists(s) ==
    LET pixels == {PixelAt(s, i) : i \in 0..(s.cols * s.rows - 1)}
    IN  UNION {[1..n -> pixels] : n \in 1..MaxGeoms}

\* tile_geom.Intersects(samp_geom) for the centre of pixel p, and the
\* (samp_id, samp_geom) pairs of the tile in the order of id_geom_dict,
\* raster.py 1057-1064
GeomList(tile, geoms) ==
    SelectSeq([i \in 1..Len(geoms) |-> [id |-> i - 1, at |-> geoms[i]]],
              LAMBDA g : /\ tile.block_coords[1] <= g.at[1]
                         /\ g.at[1] < tile.block_coords[1] + tile.block_coords[3]
                         /\ tile.block_coords[2] <= g.at[2]
                         /\ g.at[2] < tile.block_coords[2] + tile.block_coords[4])

\* geom_dict, raster.py 1106-1115: the burn value of each feature
BurnStart == 0
GeomDict(geom_list) ==
    [j \in 1..Len(geom_list) |-> [val |-> BurnStart + (j - 1), id |-> geom_list[j].id]]

\* the MEM raster of raster.py 1071-1087: '_, _, rows, cols' names the
\* third element of block_coords rows and the fourth cols
TargetDs(r, tile) ==
    LET rows == tile.block_coords[3]
        cols == tile.block_coords[4]
    IN  [xsize |-> cols, ysize |-> rows,
         transform |-> <<tile.tie_point[1], Val(r.transform)[2], 0,
                         tile.tie_point[2], 0, Val(r.transform)[6]>>]

\* RasterizeLayer with ATTRIBUTE=fid and the mask read back, raster.py
\* 1117-1128: a mask of zeros in which every feature, in layer order, burns
\* its value into the pixel its point falls in; mask_arr is [row][col]
MaskArr(ds, tile, geom_list) ==
    [row \in 1..ds.ysize |-> [col \in 1..ds.xsize |->
        LET hits == {j \in 1..Len(geom_list) :
                        /\ geom_list[j].at[1] - tile.block_coords[1] = col - 1
                        /\ geom_list[j].at[2] - tile.block_coords[2] = row - 1}
        IN  IF hits = {} THEN 0
            ELSE GeomDict(geom_list)[CHOOSE j \in hits : \A h \in hits : h <= j].val]]

\* np.transpose(np.where(mask_arr == geom_burn_val)) as [y, x] pairs: the
\* (row, col) indices of the mask, from 0, in row-major order
PixelXYLoc(ds, mask_arr, val) ==
    SelectSeq([i \in 1..(ds.ysize * ds.xsize) |->
                  <<(i - 1) \div ds.xsize, (i - 1) % ds.xsize>>],
              LAMBDA l : mask_arr[l[1] + 1][l[2] + 1] = val)

\* tile_arr[band_order, x, y] for a pair of pixel_xy_loc and band_order =
\* all bands: defined inside a three-dimensional tile array only
InTileArr(tile_arr, l) ==
    /\ Len(tile_arr) > 0
    /\ l[1] + 1 <= Len(tile_arr[1])
    /\ l[2] + 1 <= Len(tile_arr[1][1])

\* raster.py 1053 and 1066-1145 for one tile and one geometry type: the mask
\* and what the pass adds to each geometry, or the IndexError of the indexing
TilePass(r, s, tile, geoms, pass_pixel_coords, pixel_center) ==
    LET t == Val(r.transform)
        tile_arr == get_tile(r, s, AllBands(r), tile.block_coords, TRUE, 0, None).out
        geom_list == GeomList(tile, geoms)
        ds == TargetDs(r, tile)
        mask_arr == MaskArr(ds, tile, geom_list)
        geom_dict == GeomDict(geom_list)
        locs == [j \in 1..Len(geom_dict) |-> PixelXYLoc(ds, mask_arr, geom_dict[j].val)]
        bad == \/ Len(AllBands(r)) = 1
               \/ \E j \in 1..Len(geom_dict) : \E i \in 1..Len(locs[j]) :
                      ~InTileArr(tile_arr.val, locs[j][i])
    IN  [ds |-> ds, mask_arr |-> mask_arr, geom_dict |-> geom_dict,
         tile_arr |-> tile_arr,
         out |-> IF tile_arr.kind = "raise" THEN tile_arr
                 ELSE IF bad THEN Raise("IndexError")
                 ELSE Ok([j \in 1..Len(geom_dict) |->
                         [id |-> geom_dict[j].id,
                          pixel_xy_loc |-> locs[j],
                          coordinates |->
                              IF pass_pixel_coords
                              THEN [i \in 1..Len(locs[j]) |->
                                       get_coords(locs[j][i], <<t[2], t[6]>>,
                                                  tile.tie_point, pixel_center)]
                              ELSE <<>>,
                          values |->
                              [i \in 1..Len(locs[j]) |->
                                  [b \in 1..Len(tile_arr.val) |->
                                      tile_arr.val[b][locs[j][i][1] + 1][locs[j][i][2] + 1]]]]])]

\* a round of the tile loop for a tile that holds some geometry
TileRound ==
    \E k \in 1..Len(ras.tile_grid), geoms \in GeomLists(src),
       pass_pixel_coords \in BOOLEAN, pixel_center \in BOOLEAN :
        /\ ret.op = "make_tile_grid"
        /\ GeomList(ras.tile_grid[k], geoms) # <<>>
        /\ pass_pixel_coords \/ pixel_center
        /\ \E res \in {TilePass(ras, src, ras.tile_grid[k], geoms,
                                  pass_pixel_coords, pixel_center)} :
               ret' = [op |-> "tile_round", tile |-> k, geoms |-> geoms,
                       pass_pixel_coords |-> pass_pixel_coords,
                       pixel_center |-> pixel_center] @@ res
        /\ UNCHANGED <<src, ras, gen, cc>>

NextRound == Initialize \/ MakeFirstGrid \/ TileRound

SpecRound == InitLife /\ [][NextRound]_vars

(******************** a Raster whose file may be missing *******************)
\* the sources of the Raster's life, and the same with no file under the
\* Raster's name
MaybeMissing ==
    {[s EXCEPT !.found = f] :
        s \in {t \in Sources : /\ t.special = "none" /\ t.nodata = None
                               /\ t.cols <= MaxLifeDim /\ t.rows <= MaxLifeDim
                               /\ t.bands \in LifeBands},
        f \in BOOLEAN}

InitMissing ==
    /\ src \in MaybeMissing
    /\ ras = NewRaster
    /\ gen = None
    /\ ret = [op |-> "new"]
    /\ cc = NoCoords

NextMissing == Initialize \/ MakeTileGrid

SpecMissing == InitMissing /\ [][NextMissing]_vars

(******************************* claims ************************************)
InWindow(bc, px, py) ==
    /\ bc[1] <= px /\ px < bc[1] + bc[3]
    /\ bc[2] <= py /\ py < bc[2] + bc[4]

Covering(grid, px, py) == {k \in 1..Len(grid) : InWindow(grid[k].block_coords, px, py)}

FirstGridBuilt ==
    /\ ret.op = "make_tile_grid"
    /\ ret.out.kind = "ok"
    /\ ret.before = 0
    /\ gen = None

\* C1: one make_tile_grid call without bound_coords on a Raster whose
\* tile_grid is empty leaves windows that cover every pixel of
\* [0,W) x [0,H) exactly once and none outside it, and ntiles is
\* ceil(W/tw) * ceil(H/th).
C1_TilingCoverage ==
    FirstGridBuilt =>
        /\ \A px \in 0..(src.cols - 1), py \in 0..(src.rows - 1) :
               Cardinality(Covering(ras.tile_grid, px, py)) = 1
        /\ \A k \in 1..Len(ras.tile_grid) :
               LET bc == ras.tile_grid[k].block_coords
               IN  /\ bc[1] >= 0 /\ bc[2] >= 0 /\ bc[3] >= 1 /\ bc[4] >= 1
                   /\ bc[1] + bc[3] <= src.cols
                   /\ bc[2] + bc[4] <= src.rows
        /\ ras.ntiles = Some(CeilDiv(src.cols, ret.tile_xsize)
                              * CeilDiv(src.rows, ret.tile_ysize))

\* a first grid with clipped tiles in its last column and last row
C1_Witness ==
    /\ FirstGridBuilt
    /\ src.cols % ret.tile_xsize # 0
    /\ src.rows % ret.tile_ysize # 0
    /\ Len(ras.tile_grid) >= 4

TileRead == ret.op = "get_tile"

TouchesLeft(bc) == bc[1] = 0
TouchesTop(bc) == bc[2] = 0
TouchesRight(bc) == bc[1] + bc[3] = src.cols
TouchesBottom(bc) == bc[2] + bc[4] = src.rows
Interior(bc) ==
    ~(TouchesLeft(bc) \/ TouchesTop(bc) \/ TouchesRight(bc) \/ TouchesBottom(bc))

\* C2: for a tile of the grid that touches a raster edge and edge_buffer
\* b > 0, the window get_tile hands to the band read does not extend past
\* [0, columns) or [0, rows) on the side the tile touches.
C2_WindowInsideOnTouchedSide ==
    (TileRead /\ ret.edge_buffer > 0) =>
        LET bc == ret.block_coords
            w == ret.window
        IN  /\ TouchesLeft(bc) => w[1] >= 0
            /\ TouchesTop(bc) => w[2] >= 0
            /\ TouchesRight(bc) => w[1] + w[3] <= src.cols
            /\ TouchesBottom(bc) => w[2] + w[4] <= src.rows

\* height and width of the array a tile read returned
ArrHeight(r) == IF Len(r.bands) = 1 THEN Len(r.out.val) ELSE Len(r.out.val[1])
ArrWidth(r) == IF Len(r.bands) = 1 THEN Len(r.out.val[1]) ELSE Len(r.out.val[1][1])

\* C3: for an interior tile (x, y, cols, rows) and edge_buffer b, on a
\* raster of at least cols + 2b columns and rows + 2b rows, get_tile
\* returns a buffer of height rows + 2b and width cols + 2b.
C3_InteriorBufferSize ==
    (/\ TileRead
     /\ Interior(ret.block_coords)
     /\ \A j \in 1..Len(ret.bands) : ret.bands[j] \in 1..src.bands
     /\ ret.block_coords[3] + 2 * ret.edge_buffer <= src.cols
     /\ ret.block_coords[4] + 2 * ret.edge_buffer <= src.rows) =>
        /\ ret.out.kind = "ok"
        /\ ArrHeight(ret) = ret.block_coords[4] + 2 * ret.edge_buffer
        /\ ArrWidth(ret) = ret.block_coords[3] + 2 * ret.edge_buffer

\* C4: with edge_buffer b > 0, when growing the window by b leaves the
\* raster on one side of an axis, the returned size along that axis is
\* requested size + 2b when the raster is that large, the raster extent
\* otherwise.
C4_CompensatedSize ==
    (/\ TileRead
     /\ ret.edge_buffer > 0
     /\ \A j \in 1..Len(ret.bands) : ret.bands[j] \in 1..src.bands) =>
        LET bc == ret.block_coords
            b == ret.edge_buffer
            leavesX == bc[1] - b < 0 \/ bc[1] + bc[3] + b > src.cols
            leavesY == bc[2] - b < 0 \/ bc[2] + bc[4] + b > src.rows
        IN  /\ (leavesX \/ leavesY) => ret.out.kind = "ok"
            /\ leavesX => ArrWidth(ret) = Min2(bc[3] + 2 * b, src.cols)
            /\ leavesY => ArrHeight(ret) = Min2(bc[4] + 2 * b, src.rows)

\* the value at (j, row, col) of the array a tile read returned
ArrValue(r, j, row, col) ==
    IF Len(r.bands) = 1 THEN r.out.val[row][col] ELSE r.out.val[j][row][col]

\* C5: a window read by get_tile with finite_only=True and
\* nan_replacement=R holds R exactly where the source value is NaN or
\* infinite and the source value everywhere else.
C5_Sanitization ==
    (/\ TileRead
     /\ ret.finite_only
     /\ ~IsNone(ret.nan_replacement)
     /\ ret.out.kind = "ok") =>
        \A j \in 1..Len(ret.bands), row \in 1..ret.window[4], col \in 1..ret.window[3] :
            LET v == SrcValue(src, ret.bands[j], ret.window[1] + col - 1,
                              ret.window[2] + row - 1)
            IN  ArrValue(ret, j, row, col) =
                    IF isnan(v) \/ isinf(v) THEN Val(ret.nan_replacement) ELSE v

\* C6: for an integer pixel (x, y) of the raster, a non-zero integer pixel
\* size of either sign and any tie point, get_locations(get_coords((x, y),
\* pixel_size, tie_point, pixel_center=False), pixel_size, tie_point) is
\* exactly (x, y).
C6_RoundTrip ==
    cc.pc = "locs" => Val(cc.locs) = <<Fl(cc.xy[1]), Fl(cc.xy[2])>>

\* the generator has run: it is suspended at a yield, finished or failed
HasRun(g) == g.pc \in {"suspended", "done", "raised"}

\* the pair the claims expect for tile k of the grid
ExpectedPair(g, k) ==
    <<ras.tile_grid[k].tie_point,
      IF g.args.get_array
      THEN Some(get_tile(ras, src, g.bands, ras.tile_grid[k].block_coords,
                         g.args.finite_only, g.args.edge_buffer,
                         Some(g.nan_replacement)).out.val)
      ELSE None>>

\* C7: a get_next_tile generator (all bands) that has stopped running has
\* yielded exactly ntiles pairs, the k-th with the tie point of tile_grid[k]
\* and the buffer read for its block_coords, and has ended by exhaustion,
\* not by an error.
C7_ExhaustedGenerator ==
    (/\ ~IsNone(gen)
     /\ Val(gen).pc \in {"done", "raised"}
     /\ IsNone(Val(gen).args.bands)) =>
        /\ Val(gen).pc = "done"
        /\ Len(Val(gen).yields) = Val(ras.ntiles)
        /\ \A k \in 1..Len(Val(gen).yields) :
               Val(gen).yields[k] = ExpectedPair(Val(gen), k)

\* what get_next_tile may not touch
Frame(r) == <<r.tile_grid, r.ntiles, r.shape, r.transform>>

\* a generator made after an abandoned one starts at the first tile again,
\* repeats what the abandoned one yielded and goes on in grid order
RestartOK ==
    (~IsNone(gen) /\ Val(gen).restarted) =>
        LET g == Val(gen)
        IN  /\ \A k \in 1..Len(g.yields) :
                   /\ g.yields[k][1] = ras.tile_grid[k].tie_point
                   /\ k <= Len(g.prev) => g.yields[k] = g.prev[k]

\* the pull that ends a restarted generator finds one pair per tile yielded
RestartEnds ==
    (/\ FirstPull \/ Pull
     /\ Val(gen).restarted
     /\ Val(gen').pc = "done") => Len(Val(gen').yields) = Val(ras'.ntiles)

\* C8: on a Raster whose grid is built (ntiles is set), abandoning a
\* generator, and making and pulling a new one with the same arguments,
\* leave tile_grid, ntiles, shape and transform as they were; the new
\* generator yields the same pairs again from the first tile and, run to
\* its end, one pair per tile.
C8_AbandonAndRestart ==
    [][/\ (/\ ~IsNone(ras.ntiles)
           /\ CloseGen \/ NewGen \/ Pull \/ (FirstPull /\ Val(gen).restarted))
           => Frame(ras') = Frame(ras)
       /\ RestartOK'
       /\ RestartEnds]_vars

\* a generator abandoned after one of several pairs, and its successor run
\* to the end
C8_Witness ==
    /\ ~IsNone(gen)
    /\ Val(gen).restarted
    /\ Val(gen).pc = "done"
    /\ Len(Val(gen).prev) >= 1
    /\ Len(Val(gen).prev) < Val(ras.ntiles)
    /\ Len(Val(gen).yields) = Val(ras.ntiles)

\* the band numbers (from 1) a selection stands for: bnames[k] and index k
\* are band k + 1, None is every band
SelectedBands(sel) ==
    IF IsNone(sel) THEN [i \in 1..src.bands |-> i]
    ELSE [i \in 1..Len(Val(sel)) |->
             IF IsStr(Val(sel)[i]) THEN Val(sel)[i].str ELSE Val(sel)[i].int + 1]

\* C9: in get_next_tile a band chosen by its name bnames[k] and a band
\* chosen by its zero-based index k are both read from source band k + 1,
\* and bands=None reads the bands 1..band count.
C9_SameBandByNameOrIndex ==
    (~IsNone(gen) /\ HasRun(Val(gen))) =>
        Val(gen).bands = SelectedBands(Val(gen).args.bands)

\* the value vector of the pixel p: one value per band
ValueVector(p) == [b \in 1..src.bands |-> SrcValue(src, b, p[1], p[2])]

\* C10: extract_geom on N points at the centres of N different pixels of an
\* initialized raster cut into one-pixel tiles returns N entries, entry i
\* with exactly one value vector, the pixel values at point i.
C10_PointExtraction ==
    (/\ ret.op = "extract_geom"
     /\ ~IsNone(ras.shape)
     /\ Len(ret.wkt_strings) >= 1
     /\ src.cols * src.rows > 1
     /\ ret.tile_size = Some(<<1, 1>>)) =>
        /\ ret.out.kind = "ok"
        /\ Len(ret.out.val) = Len(ret.wkt_strings)
        /\ \A i \in 1..Len(ret.wkt_strings) :
               ret.out.val[i].values = <<ValueVector(ret.wkt_strings[i])>>

\* an extract_geom call on a Raster with metadata, for at least one point
Extracted ==
    /\ ret.op = "extract_geom"
    /\ ~IsNone(ras.shape)
    /\ Len(ret.wkt_strings) >= 1

\* C11: in extract_geom every pixel touched by a geometry adds exactly one
\* value vector to that geometry's 'values', whatever the tiling: a point
\* touches one pixel, so its entry holds one vector and none twice.
C11_EachPixelOnce ==
    Extracted =>
        /\ ret.out.kind = "ok"
        /\ \A i \in 1..Len(ret.wkt_strings) :
               \E j \in 1..Len(ret.out.val) :
                   /\ ret.out.val[j].key = i - 1
                   /\ Len(ret.out.val[j].values) = 1

\* an extract_geom call for POINT wkts only
PointsOnly == \A i \in 1..Len(ret.wkt_strings) : ret.wkt_strings[i].type = "POINT"

\* a known reducer over the one vector a point collects: the vector itself,
\* and for a percentile a list holding it
ReducedOne(reducer, v) ==
    IF Val(reducer) = "percentile_50" THEN <<v>> ELSE v

\* C12: with a known reducer the reduction runs once, after all tiles, so
\* the result of a geometry is the reducer applied to all the vectors
\* collected for it: for a point, to the one vector of its pixel.
C12_ReduceOnceAfterTiles ==
    (Extracted /\ PointsOnly /\ KnownReducer(ret.reducer)) =>
        /\ ret.out.kind = "ok"
        /\ Len(ret.out.val) = Len(ret.wkt_strings)
        /\ \A i \in 1..Len(ret.wkt_strings) :
               ret.out.val[i].values =
                   ReducedOne(ret.reducer, ValueVector(ret.wkt_strings[i].parts[1]))

\* C13: extract_geom with reducer='bogus' returns for every geometry the
\* unreduced values the call with reducer=None returns (for a point, the one
\* vector of its pixel) and warns exactly once.
C13_UnknownReducer ==
    (Extracted /\ PointsOnly /\ ret.reducer = Some("bogus")) =>
        /\ ret.out.kind = "ok"
        /\ ret.warnings = 1
        /\ \A i \in 1..Len(ret.wkt_strings) :
               ret.out.val[i].values = <<ValueVector(ret.wkt_strings[i].parts[1])>>

\* a composite call, and the values of pixel (x, y) in the stacked layers
Composited == ret.op = "composite"
StackValues(x, y) == [j \in 1..src.bands |-> SrcValue(src, j, x, y)]
AllNoData(x, y) == \A j \in 1..src.bands : Some(StackValues(x, y)[j]) = src.nodata

\* C14: over the three rasters holding 1, 2 and 3, composite 'mean' gives
\* 2.0 at a pixel without a hole, the mean of the values that are not
\* no-data at a pixel with a hole in some rasters, and the no-data value
\* only where all three have a hole.
C14_MeanComposite ==
    (Composited /\ ret.composite_type = "mean" /\ src.layers = Layers) =>
        /\ ret.out.kind = "ok"
        /\ \A x \in 0..(src.cols - 1), y \in 0..(src.rows - 1) :
               ret.out.val[y + 1][x + 1] =
                   IF AllNoData(x, y) THEN Val(src.nodata)
                   ELSE StackReduce("mean", NotNoData(ras, StackValues(x, y))).val

\* C15: for each known reducer a pixel whose stacked values are all the
\* no-data value gets the no-data value, and the call does not raise.
C15_AllNoDataPixel ==
    (/\ Composited
     /\ KnownComposite(ret.composite_type)
     /\ \E x \in 0..(src.cols - 1), y \in 0..(src.rows - 1) : AllNoData(x, y)) =>
        /\ ret.out.kind = "ok"
        /\ \A x \in 0..(src.cols - 1), y \in 0..(src.rows - 1) :
               AllNoData(x, y) => ret.out.val[y + 1][x + 1] = Val(src.nodata)

BoundedGrid == ret.op = "make_tile_grid_in" /\ "bound_coords" \in DOMAIN ret

\* the region asked for, in pixels, cut to [0, cols] x [0, rows]
AskedRegion ==
    LET bc == ret.bound_coords
        p == IF ret.coords_type = "pixel" THEN bc
             ELSE <<(bc[1] - GeoTransform[1]) \div Unit,
                    (bc[2] - GeoTransform[1]) \div Unit,
                    (GeoTransform[4] - bc[4]) \div Unit,
                    (GeoTransform[4] - bc[3]) \div Unit>>
    IN  [xmin |-> Max2(0, p[1]), xmax |-> Min2(src.cols, p[2]),
         ymin |-> Max2(0, p[3]), ymax |-> Min2(src.rows, p[4])]

EmptyRegion == AskedRegion.xmin >= AskedRegion.xmax \/ AskedRegion.ymin >= AskedRegion.ymax

Appended == (Len(ret.tile_grid) + 1)..Len(ras.tile_grid)

\* C17: make_tile_grid with bound_coords cuts the region to
\* [0, cols] x [0, rows]; when the cut region has xmin >= xmax or
\* ymin >= ymax the call fails and tile_grid and ntiles are what they were
\* before it; otherwise every window it appends lies inside the cut region.
C17_BoundedGrid ==
    (BoundedGrid /\ ret.coords_type # "bogus") =>
        IF EmptyRegion
        THEN /\ ret.out.kind = "raise"
             /\ ras.tile_grid = ret.tile_grid
             /\ ras.ntiles = ret.ntiles
        ELSE /\ ret.out.kind = "ok"
             /\ Appended # {}
             /\ \A k \in Appended :
                    LET bc == ras.tile_grid[k].block_coords
                    IN  /\ bc[3] > 0 /\ bc[4] > 0
                        /\ AskedRegion.xmin <= bc[1]
                        /\ bc[1] + bc[3] <= AskedRegion.xmax
                        /\ AskedRegion.ymin <= bc[2]
                        /\ bc[2] + bc[4] <= AskedRegion.ymax

\* after an earlier grid, a region given in pixels that reaches beyond the
\* raster and is empty only once it is cut was refused
C17_Witness ==
    /\ BoundedGrid
    /\ ret.coords_type = "pixel"
    /\ ret.tile_grid # <<>>
    /\ ret.bound_coords[1] < ret.bound_coords[2]
    /\ ret.bound_coords[3] < ret.bound_coords[4]
    /\ EmptyRegion
    /\ ret.out.kind = "raise"

\* C18: initialize on a Raster that is already initialized is an error, and
\* it leaves the shape and the transform of the first initialization.
C18_ReinitializeIsError ==
    [][(ras.init /\ ~IsNone(ras.shape) /\ Initialize) =>
          /\ ret'.out.kind = "raise"
          /\ ras'.shape = ras.shape
          /\ ras'.transform = ras.transform]_vars

\* the keys claimed for the records wkt_strings[i..]: the geom_id of the
\* input or its index from 0, and for the parts of a MULTIPOINT with
\* multi_geom_separate that id followed by the index of the part
BaseId(i) ==
    IF IsNone(ret.geom_id) THEN [index |-> i - 1] ELSE [id |-> Val(ret.geom_id)[i]]

KeysOf(i) ==
    IF ret.multi_geom_separate /\ ret.wkt_strings[i].type = "MULTIPOINT"
    THEN [j \in 1..Len(ret.wkt_strings[i].parts) |->
             [base |-> BaseId(i), part |-> Some(j - 1)]]
    ELSE <<[base |-> BaseId(i), part |-> None]>>

RECURSIVE ClaimedKeys(_)
ClaimedKeys(i) ==
    IF i > Len(ret.wkt_strings) THEN <<>> ELSE KeysOf(i) \o ClaimedKeys(i + 1)

\* C19: extract_geom returns one entry per geometry record, keyed by the
\* geom_id of its input or by the input's index when geom_id is None; with
\* multi_geom_separate a MULTIPOINT of k parts gives k entries keyed
\* '<base-id>_<part-index>' for the parts 0..k-1 and any other input one
\* entry under its own id.
C19_ResultKeys ==
    Extracted =>
        /\ ret.out.kind = "ok"
        /\ {ret.out.val[n].key : n \in 1..Len(ret.out.val)} =
               {ClaimedKeys(1)[n] : n \in 1..Len(ClaimedKeys(1))}

\* block_coords = (upperleft_x, upperleft_y, columns, rows) names no pixel
\* of the raster
EntirelyOutside(bc) ==
    \/ bc[1] + bc[3] <= 0 \/ bc[1] >= src.cols
    \/ bc[2] + bc[4] <= 0 \/ bc[2] >= src.rows

\* C20: get_tile for block_coords whose window lies entirely outside the
\* raster fails with an error and returns no array.
C20_OutsideWindowFails ==
    (ret.op = "get_tile_at" /\ EntirelyOutside(ret.block_coords)) =>
        ret.out.kind = "raise"

Rounded == ret.op = "tile_round"

Behind(j, row, col) ==
    SrcValue(src, ret.bands[j], ret.window[1] + col - 1, ret.window[2] + row - 1)

C26_CompositeReadsStack ==
    (Composited /\ KnownComposite(ret.composite_type)) =>
        /\ ret.bands = [i \in 1..src.bands |-> i]
        /\ ret.out.kind = "ok"
        /\ \A x \in 0..(src.cols - 1), y \in 0..(src.rows - 1) :
               ~AllNoData(x, y) =>
                   ret.out.val[y + 1][x + 1] =
                       StackReduce(ret.composite_type,
                                   NotNoData(ras, StackValues(x, y))).val

Disjoint(a, b) ==
    \/ a[1] + a[3] <= b[1] \/ b[1] + b[3] <= a[1]
    \/ a[2] + a[4] <= b[2] \/ b[2] + b[4] <= a[2]

\* C27: after any sequence of make_tile_grid calls on one Raster tile_grid
\* holds exactly the tiles of the most recent call: its windows are
\* pairwise disjoint and ntiles is the tile count of that call's region and
\* tile size.
C27_GridOfLastCall ==
    (ret.op = "make_tile_grid" /\ ret.out.kind = "ok") =>
        /\ ras.ntiles = Some(CeilDiv(src.cols, ret.tile_xsize)
                              * CeilDiv(src.rows, ret.tile_ysize))
        /\ Len(ras.tile_grid) = Val(ras.ntiles)
        /\ \A k \in 1..Len(ras.tile_grid), h \in 1..Len(ras.tile_grid) :
               k # h => Disjoint(ras.tile_grid[k].block_coords,
                                 ras.tile_grid[h].block_coords)

\* C28: every pair yielded by get_next_tile(tile_xsize, tile_ysize) belongs
\* to a tile at most tile_xsize wide and tile_ysize high, also when a grid
\* of another tile size was built on the Raster before the call.
C28_YieldedTileSize ==
    (~IsNone(gen) /\ HasRun(Val(gen))) =>
        \A k \in 1..Len(Val(gen).yields) :
            /\ ras.tile_grid[k].block_coords[3] <= Val(gen).args.tile_xsize
            /\ ras.tile_grid[k].block_coords[4] <= Val(gen).args.tile_ysize

\* the pairs a suspended generator yields from here on, were it pulled to
\* its end on the Raster r
RECURSIVE PairsToCome(_, _)
PairsToCome(r, g) ==
    LET n == RunToYield(r, g, g.tile_counter + 1)
    IN  IF n.pc = "suspended" THEN 1 + PairsToCome(r, n) ELSE 0

\* C29: a get_next_tile generator yields as many pairs as the grid held
\* when it took its first step: a make_tile_grid or extract_geom call on
\* the Raster between two pulls leaves the number of pairs still to come
\* as it was.
C29_GridFixedAtFirstStep ==
    [][(/\ ~IsNone(gen)
        /\ Val(gen).pc = "suspended"
        /\ gen' = gen) =>
           PairsToCome(ras', Val(gen)) = PairsToCome(ras, Val(gen))]_vars

\* C30: when initialize fails because no datasource is found the Raster is
\* left not initialized, so a later operation that initializes lazily
\* (here make_tile_grid) tries again and reports the same error.
C30_FailedInitializeLeavesUninitialized ==
    InitFails(ras, src) =>
        /\ ret.op = "initialize" =>
               (ret.out = Raise("ValueError") /\ ~ras.init /\ IsNone(ras.shape))
        /\ ret.op = "make_tile_grid" => ret.out = Raise("ValueError")
====
